---- MODULE Spec2Model ----
(***************************************************************************)
(* A model of datawarrior_clustersort.py: the pipeline of main()           *)
(* (file_reader, read_dw_list, label_sorter, update_cluster_labels,        *)
(* permanent_report) and its functions as operators.                       *)
(*                                                                         *)
(* A Python str is a sequence of one-character strings; a Python dict is   *)
(* a sequence of <<key, value>> pairs in insertion order; the outcome of a *)
(* call is a record [exc, val]: exc = "none" when the call returned val,   *)
(* else the exception that left it.                                        *)
(***************************************************************************)
EXTENDS Integers, Sequences, FiniteSets

\* ------------------------------------------------------------------------
\* Bounds of the explored inputs
\* ------------------------------------------------------------------------

\* lines of the input file (Spec)
MaxLines == 4
\* distinct keys of a popularity map (SpecSorter)
MaxKeys == 3
\* molecules per cluster in a popularity map (SpecSorter)
MaxCount == 3
\* rows of a table body (SpecRewriter, SpecCounter)
MaxRows == 3
\* fields of a headline (SpecLoader)
MaxHeadFields == 3

\* ------------------------------------------------------------------------
\* Python strings
\* ------------------------------------------------------------------------

TAB == "\t"
QUOTE == "\""
SPACE == " "
Whitespace == {SPACE, TAB}
Digits == <<"0", "1", "2", "3", "4", "5", "6", "7", "8", "9">>

\* the value of Python's None as an argument of str()
None == [none |-> TRUE, val |-> 0]
Some(n) == [none |-> FALSE, val |-> n]

\* outcomes of a call
Return(v) == [exc |-> "none", val |-> v]
Raise(e) == [exc |-> e, val |-> <<>>]

RECURSIVE lstrip(_)
lstrip(s) ==
    IF s # <<>> /\ Head(s) \in Whitespace THEN lstrip(Tail(s)) ELSE s

RECURSIVE rstrip(_)
rstrip(s) ==
    IF s # <<>> /\ s[Len(s)] \in Whitespace
    THEN rstrip(SubSeq(s, 1, Len(s) - 1))
    ELSE s

\* str.strip(): leading and trailing whitespace removed
strip(s) == rstrip(lstrip(s))

\* str.split(sep) for a one-character sep: never an empty list
RECURSIVE split(_, _)
split(s, sep) ==
    IF \E i \in 1..Len(s) : s[i] = sep
    THEN LET i == CHOOSE k \in 1..Len(s) :
                      s[k] = sep /\ \A j \in 1..(k - 1) : s[j] # sep
         IN  <<SubSeq(s, 1, i - 1)>> \o split(SubSeq(s, i + 1, Len(s)), sep)
    ELSE <<s>>

\* sep.join(fields)
RECURSIVE join(_, _)
join(sep, fields) ==
    IF fields = <<>> THEN <<>>
    ELSE IF Len(fields) = 1 THEN fields[1]
    ELSE fields[1] \o <<sep>> \o join(sep, Tail(fields))

\* re.search(pattern, s) for a pattern without metacharacters
re_search(pattern, s) ==
    \E i \in 0..(Len(s) - Len(pattern)) :
        SubSeq(s, i + 1, i + Len(pattern)) = pattern

DigitValue(c) == (CHOOSE i \in 1..10 : Digits[i] = c) - 1
IsDigit(c) == \E i \in 1..10 : Digits[i] = c

RECURSIVE DecimalValue(_)
DecimalValue(ds) ==
    IF ds = <<>> THEN 0
    ELSE 10 * DecimalValue(SubSeq(ds, 1, Len(ds) - 1)) + DigitValue(ds[Len(ds)])

\* int(s): surrounding whitespace and one sign are accepted, then decimal
\* digits only
int(s) ==
    LET t == strip(s)
        signed == t # <<>> /\ Head(t) \in {"+", "-"}
        ds == IF signed THEN Tail(t) ELSE t
    IN  IF ds # <<>> /\ \A i \in 1..Len(ds) : IsDigit(ds[i])
        THEN Return(IF signed /\ Head(t) = "-"
                    THEN 0 - DecimalValue(ds) ELSE DecimalValue(ds))
        ELSE Raise("ValueError")

RECURSIVE DecimalDigits(_)
DecimalDigits(n) ==
    IF n < 10 THEN <<Digits[n + 1]>>
    ELSE DecimalDigits(n \div 10) \o <<Digits[(n % 10) + 1]>>

\* str(x) of an int, or of None
str(x) ==
    IF x.none THEN <<"N", "o", "n", "e">>
    ELSE IF x.val < 0 THEN <<"-">> \o DecimalDigits(0 - x.val)
    ELSE DecimalDigits(x.val)

\* ------------------------------------------------------------------------
\* Python dicts and sorted()
\* ------------------------------------------------------------------------

KeySet(d) == {d[i][1] : i \in 1..Len(d)}
HasKey(d, k) == \E i \in 1..Len(d) : d[i][1] = k
Index(d, k) == CHOOSE i \in 1..Len(d) : d[i][1] = k
\* d[k] of a key that is there
GetItem(d, k) == d[Index(d, k)][2]
\* d.get(k): None when the key is missing
DictGet(d, k) == IF HasKey(d, k) THEN Some(GetItem(d, k)) ELSE None
\* d[k] = v: a new key goes last, an old key keeps its place
SetItem(d, k, v) ==
    IF HasKey(d, k) THEN [d EXCEPT ![Index(d, k)] = <<k, v>>]
    ELSE Append(d, <<k, v>>)

\* one element put into a list kept in order of its keys: behind every
\* element it does not strictly precede, so equal keys keep their turn
RECURSIVE InsertByKey(_, _, _)
InsertByKey(sorted, pair, reverse) ==
    IF sorted = <<>> THEN <<pair>>
    ELSE IF (IF reverse THEN pair[1] > Head(sorted)[1]
                        ELSE pair[1] < Head(sorted)[1])
         THEN <<pair>> \o sorted
         ELSE <<Head(sorted)>> \o InsertByKey(Tail(sorted), pair, reverse)

RECURSIVE SortPairs(_, _)
SortPairs(pairs, reverse) ==
    IF pairs = <<>> THEN <<>>
    ELSE InsertByKey(SortPairs(SubSeq(pairs, 1, Len(pairs) - 1), reverse),
                     pairs[Len(pairs)], reverse)

\* sorted(items, key=..., reverse=...) on <<key, item>> pairs: stable in
\* both directions
sorted(pairs, reverse) ==
    LET s == SortPairs(pairs, reverse)
    IN  [i \in 1..Len(s) |-> s[i][2]]

\* ------------------------------------------------------------------------
\* csv.reader(lines, delimiter="\t"): the default dialect otherwise
\* (quotechar '"', doublequote, no escapechar, QUOTE_MINIMAL, not strict)
\* ------------------------------------------------------------------------

\* the end of a line, as the parser is told of it
EOL == "EOL"

SaveField(p) == [p EXCEPT !.fields = Append(p.fields, p.field), !.field = <<>>]
AddChar(p, c) == [p EXCEPT !.field = Append(p.field, c)]

\* one character through the parser's state machine
ProcessChar(p, c) ==
    CASE p.state = "START_RECORD" /\ c = EOL -> p
      [] p.state \in {"START_RECORD", "START_FIELD"} /\ c # EOL ->
            IF c = QUOTE THEN [p EXCEPT !.state = "IN_QUOTED_FIELD"]
            ELSE IF c = TAB THEN [SaveField(p) EXCEPT !.state = "START_FIELD"]
            ELSE [AddChar(p, c) EXCEPT !.state = "IN_FIELD"]
      [] p.state = "START_FIELD" /\ c = EOL ->
            [SaveField(p) EXCEPT !.state = "START_RECORD"]
      [] p.state = "IN_FIELD" ->
            IF c = EOL THEN [SaveField(p) EXCEPT !.state = "START_RECORD"]
            ELSE IF c = TAB THEN [SaveField(p) EXCEPT !.state = "START_FIELD"]
            ELSE AddChar(p, c)
      [] p.state = "IN_QUOTED_FIELD" ->
            IF c = EOL THEN p
            ELSE IF c = QUOTE THEN [p EXCEPT !.state = "QUOTE_IN_QUOTED_FIELD"]
            ELSE AddChar(p, c)
      [] p.state = "QUOTE_IN_QUOTED_FIELD" ->
            IF c = QUOTE THEN [AddChar(p, c) EXCEPT !.state = "IN_QUOTED_FIELD"]
            ELSE IF c = TAB THEN [SaveField(p) EXCEPT !.state = "START_FIELD"]
            ELSE IF c = EOL THEN [SaveField(p) EXCEPT !.state = "START_RECORD"]
            ELSE [AddChar(p, c) EXCEPT !.state = "IN_FIELD"]

RECURSIVE ProcessLine(_, _)
ProcessLine(p, line) ==
    IF line = <<>> THEN ProcessChar(p, EOL)
    ELSE ProcessLine(ProcessChar(p, Head(line)), Tail(line))

\* the rows the reader yields: a record ends where a line ends outside
\* quotes; at the end of the input an open field is still given out
RECURSIVE ReadRecords(_, _)
ReadRecords(lines, p) ==
    IF lines = <<>>
    THEN IF p.field # <<>> \/ p.state = "IN_QUOTED_FIELD"
         THEN <<SaveField(p).fields>>
         ELSE <<>>
    ELSE LET q == ProcessLine(p, Head(lines))
         IN  IF q.state = "START_RECORD"
             THEN <<q.fields>>
                  \o ReadRecords(Tail(lines),
                                 [state |-> "START_RECORD", field |-> <<>>,
                                  fields |-> <<>>])
             ELSE ReadRecords(Tail(lines), q)

csv_reader(lines) ==
    ReadRecords(lines, [state |-> "START_RECORD", field |-> <<>>,
                        fields |-> <<>>])

\* ------------------------------------------------------------------------
\* The functions of datawarrior_clustersort.py
\* ------------------------------------------------------------------------

ClusterNo == <<"C", "l", "u", "s", "t", "e", "r", " ", "N", "o">>

\* the indices (0-based) of the column heads that match "Cluster No"
list_of_matches(headline) ==
    LET column_heads == split(headline, TAB)
    IN  SelectSeq([i \in 1..Len(column_heads) |-> i - 1],
                  LAMBDA i : re_search(ClusterNo, column_heads[i + 1]))

\* a variant that falls back to the first column when nothing matches
identify_cluster_column_default(headline) ==
    LET matches == list_of_matches(headline)
    IN  IF matches = <<>> THEN Return(0) ELSE Return(matches[1])

identify_cluster_column(headline) ==
    LET matches == list_of_matches(headline)
    IN  IF matches = <<>> THEN Raise("IndexError") ELSE Return(matches[1])

\* the lines file_reader keeps: longer than one character, then stripped
raw_table(lines) ==
    LET kept == SelectSeq(lines, LAMBDA l : Len(l) > 1)
    IN  [i \in 1..Len(kept) |-> strip(kept[i])]

\* a variant that is content with a headline and one record
file_reader_two_lines(lines) ==
    LET table == raw_table(lines)
    IN  IF Len(table) < 2 THEN Raise("SystemExit(1)")
        ELSE LET column == identify_cluster_column(table[1])
             IN  IF column.exc # "none" THEN Raise(column.exc)
                 ELSE Return(<<table[1], Tail(table), column.val>>)

\* file_reader on the lines read(): <<headline, table_body, column>>, or
\* SystemExit(1) after logging, or what identify_cluster_column raises
file_reader(lines) ==
    LET table == raw_table(lines)
    IN  IF Len(table) < 3 THEN Raise("SystemExit(1)")
        ELSE LET column == identify_cluster_column(table[1])
             IN  IF column.exc # "none" THEN Raise(column.exc)
                 ELSE Return(<<table[1], Tail(table), column.val>>)

\* count[label] += 1 over the labels, a new label starting at 0
RECURSIVE CountLabels(_, _)
CountLabels(labels, count) ==
    IF labels = <<>> THEN count
    ELSE LET label == Head(labels)
             seen == IF HasKey(count, label) THEN count
                     ELSE SetItem(count, label, 0)
         IN  CountLabels(Tail(labels),
                         SetItem(seen, label, GetItem(seen, label) + 1))

read_dw_list(table_body, old_cluster_label) ==
    LET source == csv_reader(table_body)
    IN  IF \E i \in 1..Len(source) : Len(source[i]) <= old_cluster_label
        THEN Raise("IndexError")
        ELSE Return(CountLabels(
                 [i \in 1..Len(source) |-> source[i][old_cluster_label + 1]],
                 <<>>))

\* a variant that sorts by descending popularity whatever the flag
label_sorter_ignores_flag(count, reversed_order) ==
    LET sorted_list ==
            sorted([i \in 1..Len(count) |-> <<count[i][2], count[i][1]>>],
                   TRUE)
    IN  [new_label \in 1..Len(sorted_list) |->
            <<sorted_list[new_label], (new_label - 1) + 1>>]

\* a variant that forgets the `+ 1` of the zero-based enumerate
label_sorter_zero_based(count, reversed_order) ==
    LET sorted_list ==
            sorted([i \in 1..Len(count) |-> <<count[i][2], count[i][1]>>],
                   ~reversed_order)
    IN  [new_label \in 1..Len(sorted_list) |->
            <<sorted_list[new_label], new_label - 1>>]

\* a variant that gets the descending order by reversing the ascending
\* list, sorted(...)[::-1], which turns the order of equal counts around
label_sorter_reversed_list(count, reversed_order) ==
    LET ascending ==
            sorted([i \in 1..Len(count) |-> <<count[i][2], count[i][1]>>],
                   FALSE)
        sorted_list ==
            IF reversed_order THEN ascending
            ELSE [i \in 1..Len(ascending) |->
                     ascending[Len(ascending) + 1 - i]]
    IN  [new_label \in 1..Len(sorted_list) |->
            <<sorted_list[new_label], (new_label - 1) + 1>>]

label_sorter(count, reversed_order) ==
    LET sorted_list ==
            sorted([i \in 1..Len(count) |-> <<count[i][2], count[i][1]>>],
                   ~reversed_order)
    IN  [new_label \in 1..Len(sorted_list) |->
            <<sorted_list[new_label], (new_label - 1) + 1>>]

\* the key of the final sort: the second field of the record as an int
sort_by_cluster_label(s) ==
    LET fields == split(s, TAB)
    IN  IF Len(fields) < 2 THEN Raise("IndexError") ELSE int(fields[2])

\* one record with its cluster label replaced
new_record(record, old_cluster_label, label_dictionary) ==
    LET record_data == split(record, TAB)
        old_label == record_data[old_cluster_label + 1]
        new_label == DictGet(label_dictionary, old_label)
    IN  join(TAB, [record_data EXCEPT ![old_cluster_label + 1] = str(new_label)])

\* a variant that replaces the old label wherever it stands in the record,
\* record.replace(old_label, str(new_label)) field by field
update_every_matching_cell(table_body, old_cluster_label, label_dictionary) ==
    IF \E i \in 1..Len(table_body) :
           Len(split(table_body[i], TAB)) <= old_cluster_label
    THEN Raise("IndexError")
    ELSE LET replaced(record) ==
                 LET record_data == split(record, TAB)
                     old_label == record_data[old_cluster_label + 1]
                     new_label == str(DictGet(label_dictionary, old_label))
                 IN  join(TAB, [k \in 1..Len(record_data) |->
                                   IF record_data[k] = old_label
                                   THEN new_label ELSE record_data[k]])
             reporter_list ==
                 [i \in 1..Len(table_body) |-> replaced(table_body[i])]
             keys == [i \in 1..Len(reporter_list) |->
                         sort_by_cluster_label(reporter_list[i])]
         IN  IF \E i \in 1..Len(keys) : keys[i].exc # "none"
             THEN Raise("ValueError")
             ELSE Return(sorted([i \in 1..Len(reporter_list) |->
                                    <<keys[i].val, reporter_list[i]>>], FALSE))

update_cluster_labels(table_body, old_cluster_label, label_dictionary) ==
    IF \E i \in 1..Len(table_body) :
           Len(split(table_body[i], TAB)) <= old_cluster_label
    THEN Raise("IndexError")
    ELSE LET reporter_list ==
                 [i \in 1..Len(table_body) |->
                     new_record(table_body[i], old_cluster_label,
                                label_dictionary)]
             keys == [i \in 1..Len(reporter_list) |->
                         sort_by_cluster_label(reporter_list[i])]
         IN  IF \E i \in 1..Len(keys) : keys[i].exc # "none"
             THEN Raise(keys[CHOOSE i \in 1..Len(keys) :
                                 /\ keys[i].exc # "none"
                                 /\ \A j \in 1..(i - 1) : keys[j].exc = "none"].exc)
             ELSE Return(sorted([i \in 1..Len(reporter_list) |->
                                    <<keys[i].val, reporter_list[i]>>], FALSE))

\* the lines permanent_report writes into the report file
report_lines(headline, listing) == <<headline>> \o listing

\* the exit status the interpreter ends with when an exception leaves
\* main(): sys.exit() without an argument is status 0, sys.exit(1) is 1,
\* any other exception ends in a traceback and status 1
ExitCode(exc) == IF exc = "SystemExit()" THEN 0 ELSE 1

\* ------------------------------------------------------------------------
\* State
\* ------------------------------------------------------------------------

VARIABLES
    pc,                 \* the call main() makes next, or "exit"
    input_file,         \* the lines of args.file
    reverse,            \* args.reverse
    headline,
    table_body,
    old_cluster_label,
    popularity,
    label_dictionary,
    report_list,
    report_file,        \* the lines of <stem>_sort.txt; <<>> while absent
    file_exists,        \* whether <stem>_sort.txt is on the disk
    exception,          \* the exception that ended the run, or "none"
    logged,             \* whether logging.error was called
    exit_status,        \* the exit status once pc = "exit"; -1 before
    calls               \* the calls main() has made so far, in order

vars == <<pc, input_file, reverse, headline, table_body, old_cluster_label,
          popularity, label_dictionary, report_list, report_file,
          file_exists, exception, logged, exit_status, calls>>

\* ------------------------------------------------------------------------
\* Inputs
\* ------------------------------------------------------------------------

Cells == {<<"1">>, <<"2">>, <<"a">>}
Numeric == {<<"1">>, <<"2">>}
\* a cell that opens a quote and does not close it
Quoted == <<QUOTE, "1">>

\* headlines with the cluster column second, first, and missing
HeadlineSecond == <<"I", "D", TAB>> \o ClusterNo
HeadlineFirst == ClusterNo \o <<TAB, "I", "D">>
HeadlineNone == <<"I", "D", TAB, "N", "a", "m", "e">>

\* the lines an input file is made of: headlines, records, and lines that
\* are empty, one character long, blank, or hold a quote
InputLines ==
    {HeadlineSecond, HeadlineFirst, HeadlineNone}
    \cup {<<"a", TAB, "1">>, <<"1", TAB, "2">>, <<"2", TAB, "1">>}
    \cup {<<>>, <<"x">>, <<SPACE, SPACE>>, <<"a", TAB>> \o Quoted}

InputFiles == UNION {[1..n -> InputLines] : n \in 0..MaxLines}

InjectiveSeqs(S, k) ==
    {f \in [1..k -> S] : \A i, j \in 1..k : i # j => f[i] # f[j]}

\* the cluster labels DataWarrior gave: "1", "2", ...
ClusterIds == {str(Some(i)) : i \in 1..MaxKeys}

\* the dicts read_dw_list may return: distinct labels in any order, each
\* with a positive number of molecules
PopularityMaps ==
    UNION {{[i \in 1..k |-> <<keys[i], counts[i]>>] :
               keys \in InjectiveSeqs(ClusterIds, k),
               counts \in [1..k -> 1..MaxCount]} : k \in 0..MaxKeys}

\* table bodies whose records all have two fields, or all three
Records2 == {join(TAB, <<x, y>>) : x \in Cells, y \in Cells}
Records3 == {join(TAB, <<x, y, z>>) : x \in Numeric, y \in Numeric, z \in Numeric}
Bodies ==
    UNION {[1..n -> Records2] \cup [1..n -> Records3] : n \in 1..MaxRows}

\* the columns every record of the body has
Columns(body) ==
    {c \in 0..2 : \A i \in 1..Len(body) : c < Len(split(body[i], TAB))}

\* the cells of a column, as str.split gives them
ColumnCells(body, column) ==
    [i \in 1..Len(body) |-> split(body[i], TAB)[column + 1]]

\* the distinct values of a list, in the order they are first met
RECURSIVE Distinct(_)
Distinct(list) ==
    IF list = <<>> THEN <<>>
    ELSE LET front == Distinct(SubSeq(list, 1, Len(list) - 1))
             last == list[Len(list)]
         IN  IF \E i \in 1..Len(front) : front[i] = last THEN front
             ELSE Append(front, last)

\* the relabel maps that are complete for a column of a body: every cell
\* of the column is a key, the labels are 1..K in any order
CompleteMaps(body, column) ==
    LET keys == Distinct(ColumnCells(body, column))
    IN  {[i \in 1..Len(keys) |-> <<keys[i], labels[i]>>] :
            labels \in InjectiveSeqs(1..Len(keys), Len(keys))}

\* a dict without its i-th entry
WithoutEntry(d, i) == SubSeq(d, 1, i - 1) \o SubSeq(d, i + 1, Len(d))

\* the relabel maps that miss one cell of a column of a body
IncompleteMaps(body, column) ==
    {WithoutEntry(d, i) : d \in CompleteMaps(body, column),
                          i \in 1..Len(Distinct(ColumnCells(body, column)))}

\* table bodies for read_dw_list: two fields, a cell may open a quote
QuotedRecords ==
    {join(TAB, <<x, y>>) : x \in Cells \cup {Quoted}, y \in Cells \cup {Quoted}}
QuotedBodies == UNION {[1..n -> QuotedRecords] : n \in 1..MaxRows}

\* headlines of one to MaxHeadFields column heads; some hold "Cluster No"
ColumnHeads ==
    {ClusterNo, <<"x">> \o ClusterNo \o <<"2">>,
     <<"C", "l", "u", "s", "t", "e", "r">>, <<"I", "D">>}
Headlines ==
    UNION {{join(TAB, heads) : heads \in [1..n -> ColumnHeads]} :
              n \in 1..MaxHeadFields}

\* ------------------------------------------------------------------------
\* main(): one action per call
\* ------------------------------------------------------------------------

\* an exception leaves main(): the interpreter exits
Abort(exc, log) ==
    /\ pc' = "exit"
    /\ exception' = exc
    /\ logged' = log
    /\ exit_status' = ExitCode(exc)

\* line 257: file_reader(args.file); read() may fail with an OSError,
\* which is logged and ends in sys.exit(1)
FileReader ==
    /\ pc = "file_reader"
    /\ calls' = Append(calls, "file_reader")
    /\ \E readable \in BOOLEAN :
          LET r == IF readable THEN file_reader(input_file)
                   ELSE Raise("SystemExit(1)")
          IN  IF r.exc = "none"
              THEN /\ headline' = r.val[1]
                   /\ table_body' = r.val[2]
                   /\ old_cluster_label' = r.val[3]
                   /\ pc' = "read_dw_list"
                   /\ UNCHANGED <<exception, logged, exit_status>>
              ELSE /\ Abort(r.exc, r.exc = "SystemExit(1)")
                   /\ UNCHANGED <<headline, table_body, old_cluster_label>>
    /\ UNCHANGED <<input_file, reverse, popularity, label_dictionary,
                   report_list, report_file, file_exists>>

\* line 260: read_dw_list(table_body, old_cluster_label)
ReadDwList ==
    /\ pc = "read_dw_list"
    /\ calls' = Append(calls, "read_dw_list")
    /\ LET r == read_dw_list(table_body, old_cluster_label)
       IN  IF r.exc = "none"
           THEN /\ popularity' = r.val
                /\ pc' = "label_sorter"
                /\ UNCHANGED <<exception, logged, exit_status>>
           ELSE /\ Abort(r.exc, FALSE)
                /\ UNCHANGED popularity
    /\ UNCHANGED <<input_file, reverse, headline, table_body,
                   old_cluster_label, label_dictionary, report_list,
                   report_file, file_exists>>

\* line 263: label_sorter(popularity, args.reverse)
LabelSorter ==
    /\ pc = "label_sorter"
    /\ calls' = Append(calls, "label_sorter")
    /\ label_dictionary' = label_sorter(popularity, reverse)
    /\ pc' = "update_cluster_labels"
    /\ UNCHANGED <<input_file, reverse, headline, table_body,
                   old_cluster_label, popularity, report_list, report_file,
                   file_exists, exception, logged, exit_status>>

\* line 264: update_cluster_labels(table_body, old_cluster_label,
\* label_dictionary)
UpdateClusterLabels ==
    /\ pc = "update_cluster_labels"
    /\ calls' = Append(calls, "update_cluster_labels")
    /\ LET r == update_cluster_labels(table_body, old_cluster_label,
                                      label_dictionary)
       IN  IF r.exc = "none"
           THEN /\ report_list' = r.val
                /\ pc' = "permanent_report"
                /\ UNCHANGED <<exception, logged, exit_status>>
           ELSE /\ Abort(r.exc, FALSE)
                /\ UNCHANGED report_list
    /\ UNCHANGED <<input_file, reverse, headline, table_body,
                   old_cluster_label, popularity, label_dictionary,
                   report_file, file_exists>>

\* line 265: permanent_report(args.file.name, headline, report_list).
\* open(..., mode="w") creates or empties the file, then the lines are
\* written one by one; an OSError may come from open() (opened = FALSE) or
\* after any number of lines short of all, and ends in sys.exit()
PermanentReport ==
    /\ pc = "permanent_report"
    /\ calls' = Append(calls, "permanent_report")
    /\ LET lines == report_lines(headline, report_list)
       IN  \E opened \in BOOLEAN, written \in 0..Len(lines) :
              /\ ~opened => written = 0
              /\ file_exists' = (file_exists \/ opened)
              /\ report_file' = IF opened THEN SubSeq(lines, 1, written)
                                ELSE report_file
              /\ IF opened /\ written = Len(lines)
                 THEN /\ pc' = "read_dw_list again"
                      /\ UNCHANGED <<exception, logged, exit_status>>
                 ELSE Abort("SystemExit()", TRUE)
    /\ UNCHANGED <<input_file, reverse, headline, table_body,
                   old_cluster_label, popularity, label_dictionary,
                   report_list>>

\* line 269: read_dw_list(report_list, old_cluster_label), for the
\* printed summary only; main() then returns and the status is 0
ReadNewData ==
    /\ pc = "read_dw_list again"
    /\ calls' = Append(calls, "read_dw_list")
    /\ LET r == read_dw_list(report_list, old_cluster_label)
       IN  IF r.exc = "none"
           THEN /\ pc' = "exit"
                /\ exit_status' = 0
                /\ UNCHANGED <<exception, logged>>
           ELSE Abort(r.exc, FALSE)
    /\ UNCHANGED <<input_file, reverse, headline, table_body,
                   old_cluster_label, popularity, label_dictionary,
                   report_list, report_file, file_exists>>

\* the state before main() has called anything
Blank ==
    /\ headline = <<>>
    /\ table_body = <<>>
    /\ old_cluster_label = 0
    /\ popularity = <<>>
    /\ label_dictionary = <<>>
    /\ report_list = <<>>
    /\ report_file = <<>>
    /\ file_exists = FALSE
    /\ exception = "none"
    /\ logged = FALSE
    /\ exit_status = -1
    /\ calls = <<>>

Init ==
    /\ pc = "file_reader"
    /\ input_file \in InputFiles
    /\ reverse \in BOOLEAN
    /\ Blank

Next ==
    \/ FileReader
    \/ ReadDwList
    \/ LabelSorter
    \/ UpdateClusterLabels
    \/ PermanentReport
    \/ ReadNewData

Spec == Init /\ [][Next]_vars

\* ------------------------------------------------------------------------
\* The functions on their own: the state before one call of main(), with
\* the arguments of the call drawn from the inputs above
\* ------------------------------------------------------------------------

\* label_sorter on every popularity map
InitSorter ==
    /\ pc = "label_sorter"
    /\ popularity \in PopularityMaps
    /\ reverse \in BOOLEAN
    /\ input_file = <<>> /\ headline = <<>> /\ table_body = <<>>
    /\ old_cluster_label = 0 /\ label_dictionary = <<>>
    /\ report_list = <<>> /\ report_file = <<>> /\ file_exists = FALSE
    /\ exception = "none" /\ logged = FALSE /\ exit_status = -1
    /\ calls = <<>>

NextSorter == LabelSorter

SpecSorter == InitSorter /\ [][NextSorter]_vars

\* update_cluster_labels on every body, column and complete relabel map
InitRewriter ==
    /\ pc = "update_cluster_labels"
    /\ table_body \in Bodies
    /\ old_cluster_label \in Columns(table_body)
    /\ label_dictionary \in CompleteMaps(table_body, old_cluster_label)
    /\ reverse = FALSE
    /\ input_file = <<>> /\ headline = <<>> /\ popularity = <<>>
    /\ report_list = <<>> /\ report_file = <<>> /\ file_exists = FALSE
    /\ exception = "none" /\ logged = FALSE /\ exit_status = -1
    /\ calls = <<>>

NextRewriter == UpdateClusterLabels

SpecRewriter == InitRewriter /\ [][NextRewriter]_vars

\* read_dw_list on every body and every column all its records have
InitCounter ==
    /\ pc = "read_dw_list"
    /\ table_body \in QuotedBodies
    /\ old_cluster_label \in Columns(table_body)
    /\ reverse = FALSE
    /\ input_file = <<>> /\ headline = <<>> /\ popularity = <<>>
    /\ label_dictionary = <<>>
    /\ report_list = <<>> /\ report_file = <<>> /\ file_exists = FALSE
    /\ exception = "none" /\ logged = FALSE /\ exit_status = -1
    /\ calls = <<>>

NextCounter == ReadDwList

SpecCounter == InitCounter /\ [][NextCounter]_vars

\* file_reader on a headline and two records
InitLoader ==
    /\ pc = "file_reader"
    /\ input_file \in {<<h, <<"a", TAB, "1">>, <<"1", TAB, "2">>>> :
                          h \in Headlines}
    /\ reverse \in BOOLEAN
    /\ Blank

NextLoader == FileReader

SpecLoader == InitLoader /\ [][NextLoader]_vars

\* update_cluster_labels on every body, column and relabel map that
\* misses one cell of the column
InitUnmapped ==
    /\ pc = "update_cluster_labels"
    /\ table_body \in Bodies
    /\ old_cluster_label \in Columns(table_body)
    /\ label_dictionary \in IncompleteMaps(table_body, old_cluster_label)
    /\ reverse = FALSE
    /\ input_file = <<>> /\ headline = <<>> /\ popularity = <<>>
    /\ report_list = <<>> /\ report_file = <<>> /\ file_exists = FALSE
    /\ exception = "none" /\ logged = FALSE /\ exit_status = -1
    /\ calls = <<>>

NextUnmapped == UpdateClusterLabels

SpecUnmapped == InitUnmapped /\ [][NextUnmapped]_vars

\* ------------------------------------------------------------------------
\* Properties
\* ------------------------------------------------------------------------

\* label_sorter has returned (SpecSorter), or main() has got past it
Sorted == pc = "update_cluster_labels"
\* update_cluster_labels has returned
Rewritten == pc = "permanent_report"
\* read_dw_list has returned
Counted == pc = "label_sorter"
\* file_reader has returned
Loaded == pc = "read_dw_list"

\* C1: label_sorter orders the labels by popularity: a cluster with
\* strictly more rows than another gets the smaller new label in default
\* mode and the larger new label in reversed mode.
C1_PopularityOrder ==
    Sorted =>
        \A a, b \in KeySet(popularity) :
            GetItem(popularity, a) > GetItem(popularity, b) =>
                /\ HasKey(label_dictionary, a)
                /\ HasKey(label_dictionary, b)
                /\ IF reverse
                   THEN GetItem(label_dictionary, a) > GetItem(label_dictionary, b)
                   ELSE GetItem(label_dictionary, a) < GetItem(label_dictionary, b)

\* reversed mode has relabelled three clusters, two of different size
C1_Witness ==
    /\ Sorted
    /\ reverse
    /\ Len(label_dictionary) = 3
    /\ \E a, b \in KeySet(popularity) :
          GetItem(popularity, a) > GetItem(popularity, b)

\* C2: the relabel map has the keys of the popularity map, each once, no
\* two keys share a new label, and the new labels are exactly 1..K for
\* the K keys.
C2_DenseBijection ==
    Sorted =>
        LET K == Cardinality(KeySet(popularity))
        IN  /\ KeySet(label_dictionary) = KeySet(popularity)
            /\ Len(label_dictionary) = K
            /\ \A i, j \in 1..Len(label_dictionary) :
                  i # j => label_dictionary[i][2] # label_dictionary[j][2]
            /\ {label_dictionary[i][2] : i \in 1..Len(label_dictionary)} = 1..K

\* default mode has relabelled three clusters
C2_Witness ==
    /\ Sorted
    /\ ~reverse
    /\ Cardinality(KeySet(popularity)) = 3
    /\ Len(label_dictionary) = 3

\* C6: of two cluster labels with equal counts, the one met first (the
\* earlier key of the popularity map) gets the smaller new label, in
\* default mode and in reversed mode.
C6_TiesKeepFirstSeenOrder ==
    Sorted =>
        \A i, j \in 1..Len(popularity) :
            (i < j /\ popularity[i][2] = popularity[j][2]) =>
                /\ HasKey(label_dictionary, popularity[i][1])
                /\ HasKey(label_dictionary, popularity[j][1])
                /\ GetItem(label_dictionary, popularity[i][1])
                      < GetItem(label_dictionary, popularity[j][1])

\* default mode has relabelled two clusters of equal size and a larger
\* one met after them
C6_Witness ==
    /\ Sorted
    /\ ~reverse
    /\ Len(popularity) = 3
    /\ popularity[1][2] = popularity[2][2]
    /\ popularity[3][2] > popularity[1][2]
    /\ Len(label_dictionary) = 3

\* the new label a record of the report carries in the cluster column
LabelOf(record) == int(split(record, TAB)[old_cluster_label + 1])

\* C3: the rows update_cluster_labels returns are in ascending order of
\* the new label in the cluster column, whichever column that is, which
\* keeps the rows of one label together.
C3_SortedByNewLabel ==
    Rewritten =>
        \A i, j \in 1..Len(report_list) :
            i < j =>
                /\ LabelOf(report_list[i]).exc = "none"
                /\ LabelOf(report_list[j]).exc = "none"
                /\ LabelOf(report_list[i]).val <= LabelOf(report_list[j]).val

Orderings(n) == InjectiveSeqs(1..n, n)

\* C4: what update_cluster_labels returns has as many rows as it was
\* given, and the rows are those it was given, each once, with the cell
\* of the cluster column replaced by the string of its new label and every
\* other field, and the number of fields, as before; and with the cluster
\* column second it does return.
C4_RowsKeptOtherCellsUntouched ==
    /\ (calls # <<>> /\ old_cluster_label = 1) => Rewritten
    /\ Rewritten =>
        /\ Len(report_list) = Len(table_body)
        /\ \E p \in Orderings(Len(table_body)) :
              \A i \in 1..Len(table_body) :
                  LET before == split(table_body[i], TAB)
                      after == split(report_list[p[i]], TAB)
                  IN  /\ Len(after) = Len(before)
                      /\ \A k \in 1..Len(before) :
                            IF k = old_cluster_label + 1
                            THEN after[k] = str(Some(GetItem(label_dictionary,
                                                             before[k])))
                            ELSE after[k] = before[k]

\* three records of three fields have come back, relabelled in the third
\* column and in another order than they went in
C4_Witness ==
    /\ Rewritten
    /\ old_cluster_label = 2
    /\ Len(report_list) = 3
    /\ \E i \in 1..3 : split(report_list[i], TAB)[1] # split(table_body[i], TAB)[1]
    /\ \E i \in 1..3 : split(report_list[i], TAB)[3] # split(table_body[i], TAB)[3]

\* the number of elements of a list that equal x
RECURSIVE Occurrences(_, _)
Occurrences(list, x) ==
    IF list = <<>> THEN 0
    ELSE (IF Head(list) = x THEN 1 ELSE 0) + Occurrences(Tail(list), x)

RECURSIVE SumOfValues(_)
SumOfValues(d) == IF d = <<>> THEN 0 ELSE Head(d)[2] + SumOfValues(Tail(d))

\* C5: for a column every row has, the keys of the map read_dw_list
\* returns are the distinct cells of that column, each with the number of
\* rows that carry it, so that the values add up to the number of rows.
C5_CountsCellsOfColumn ==
    Counted =>
        LET cells == ColumnCells(table_body, old_cluster_label)
        IN  /\ KeySet(popularity) = {cells[i] : i \in 1..Len(cells)}
            /\ \A i \in 1..Len(popularity) :
                  popularity[i][2] = Occurrences(cells, popularity[i][1])
            /\ SumOfValues(popularity) = Len(table_body)

\* the output file holds the headline and every rewritten row
FullReport ==
    file_exists /\ report_file = report_lines(headline, report_list)

\* C7: the exit status is 0 only when the whole pipeline succeeded: the
\* run got through permanent_report and the report is on the disk.
C7_StatusZeroOnlyOnSuccess ==
    (pc = "exit" /\ exit_status = 0) =>
        /\ exception = "none"
        /\ FullReport

\* C8: a run ends with the full report written, or with no output file
\* written at all.
C8_FullReportOrNone ==
    pc = "exit" => (FullReport \/ ~file_exists)

\* the lines the Loader's filter lets through, as they are in the file
Usable(lines) == SelectSeq(lines, LAMBDA l : Len(l) > 1)

\* C9: with fewer than 3 usable lines file_reader logs the error and the
\* run ends with status 1, no table, no later call and no output file;
\* with 3 or more, what it returns is the first usable line as headline
\* and the following usable lines, in order, as body (each stripped), and
\* it fails only where the input cannot be read or no column is found.
C9_ThreeLinesOrExit ==
    calls # <<>> =>
        LET usable == Usable(input_file)
        IN  IF Len(usable) < 3
            THEN /\ pc = "exit"
                 /\ exit_status = 1
                 /\ logged
                 /\ calls = <<"file_reader">>
                 /\ headline = <<>> /\ table_body = <<>>
                 /\ ~file_exists
            ELSE /\ (Loaded \/ Len(calls) > 1) =>
                        /\ headline = strip(usable[1])
                        /\ table_body =
                              [i \in 1..(Len(usable) - 1) |-> strip(usable[i + 1])]
                 /\ (pc = "exit" /\ Len(calls) = 1) =>
                        \/ exception = "SystemExit(1)" /\ logged
                        \/ /\ exception = "IndexError"
                           /\ list_of_matches(strip(usable[1])) = <<>>

\* a file of a headline, one record and two lines the filter drops has
\* ended the run in file_reader
C9_Witness ==
    /\ pc = "exit"
    /\ calls = <<"file_reader">>
    /\ Len(input_file) = 4
    /\ Len(Usable(input_file)) = 2
    /\ input_file[1] = HeadlineSecond
    /\ exit_status = 1

\* the column heads of the headline file_reader looks at
HeadsOf(lines) == split(strip(Usable(lines)[1]), TAB)

\* C10: the column file_reader returns is the 0-based index of the first
\* column head that contains "Cluster No"; when no column head contains
\* it, file_reader fails (an IndexError leaves main(), status 1) and no
\* index, no table and no later call follow.
C10_FirstMatchOrFailure ==
    (calls # <<>> /\ Len(Usable(input_file)) >= 3 /\ exception # "SystemExit(1)") =>
        LET heads == HeadsOf(input_file)
            hits == {i \in 1..Len(heads) : re_search(ClusterNo, heads[i])}
        IN  IF hits = {}
            THEN /\ pc = "exit"
                 /\ exception = "IndexError"
                 /\ exit_status # 0
                 /\ calls = <<"file_reader">>
                 /\ headline = <<>> /\ table_body = <<>>
            ELSE /\ Loaded
                 /\ hits # {}
                 /\ old_cluster_label + 1 \in hits
                 /\ \A i \in hits : old_cluster_label + 1 <= i

\* a headline of three column heads, none with "Cluster No", has ended
\* the run in file_reader
C10_Witness ==
    /\ pc = "exit"
    /\ exception = "IndexError"
    /\ Len(HeadsOf(input_file)) = 3
    /\ \A i \in 1..3 : ~re_search(ClusterNo, HeadsOf(input_file)[i])

\* the cells of the cluster column that the relabel map has no entry for
Unmapped ==
    {c \in {ColumnCells(table_body, old_cluster_label)[i] :
               i \in 1..Len(table_body)} : ~HasKey(label_dictionary, c)}

\* C11: when a cell of the cluster column has no entry in the relabel
\* map, update_cluster_labels fails: it returns no rows, whichever column
\* the cluster column is.
C11_UnmappedLabelFails ==
    (calls # <<>> /\ Unmapped # {}) => (pc = "exit" /\ exception # "none")

\* the lines that are longer than one character once stripped
LongerWhenStripped(lines) == SelectSeq(lines, LAMBDA l : Len(strip(l)) > 1)

\* C12: the Loader drops exactly the lines that are at most one character
\* long once stripped: the headline and the body are the other lines, in
\* their order, and only they count towards the minimum of 3.
C12_DropsLinesShortWhenStripped ==
    LET kept == LongerWhenStripped(input_file)
    IN  /\ (Loaded \/ Len(calls) > 1) =>
               <<headline>> \o table_body = [i \in 1..Len(kept) |-> strip(kept[i])]
        /\ (calls # <<>> /\ Len(kept) < 3) =>
               (pc = "exit" /\ calls = <<"file_reader">>)

\* the records of a list that carry the new label n in the cluster column
WithLabel(list, n) ==
    SelectSeq(list, LAMBDA r : LabelOf(r).exc = "none" /\ LabelOf(r).val = n)

\* C13: update_cluster_labels orders stably: the rows of one new label
\* are returned in the order the body had them, whichever column the cluster
\* column is.
C13_SameLabelKeepsInputOrder ==
    Rewritten =>
        LET rewritten == [i \in 1..Len(table_body) |->
                             new_record(table_body[i], old_cluster_label,
                                        label_dictionary)]
        IN  \A n \in 1..Len(label_dictionary) :
                WithLabel(report_list, n) = WithLabel(rewritten, n)

\* C14: in a run, every cell update_cluster_labels looks up is a key of
\* the relabel map that read_dw_list and label_sorter built from the same
\* body: no cell of the cluster column is unmapped.
C14_EveryCellLookedUpIsMapped ==
    Sorted =>
        \A i \in 1..Len(table_body) :
            /\ old_cluster_label < Len(split(table_body[i], TAB))
            /\ ColumnCells(table_body, old_cluster_label)[i]
                   \in KeySet(label_dictionary)

\* ------------------------------------------------------------------------
\* A second pass over the output of a run

\* whether the report of a first run has been fed back
SecondPass == \E i \in 1..Len(calls) : calls[i] = "feed back"

\* the report of a run that ended well is taken as the body of a second
\* pass of main() lines 262-264, read_dw_list, label_sorter and
\* update_cluster_labels, with the same headline, column and flag
FeedBack ==
    /\ pc = "exit"
    /\ exit_status = 0
    /\ exception = "none"
    /\ ~SecondPass
    /\ calls' = Append(calls, "feed back")
    /\ table_body' = report_list
    /\ pc' = "read_dw_list"
    /\ exit_status' = -1
    /\ UNCHANGED <<input_file, reverse, headline, old_cluster_label,
                   popularity, label_dictionary, report_list, report_file,
                   file_exists, exception, logged>>

NextTwice ==
    \/ Next
    \/ FeedBack

SpecTwice == Init /\ [][NextTwice]_vars

\* C15: a second pass over the output of a run that ended well, with
\* the same flag, changes nothing: read_dw_list, label_sorter and
\* update_cluster_labels return, the relabel map gives every label itself,
\* and the rows returned are the rows fed in, whichever column the cluster
\* column is.
C15_SecondPassChangesNothing ==
    SecondPass =>
        /\ exception \in {"none", "SystemExit()"}
        /\ pc \in {"update_cluster_labels", "permanent_report"} =>
               \A i \in 1..Len(label_dictionary) :
                   label_dictionary[i][1] = str(Some(label_dictionary[i][2]))
        /\ pc = "permanent_report" => report_list = table_body

====
